---- MODULE Spec2Model ----
(***************************************************************************)
(* SimpleVector<Type> (src/simple_vector.h) over the owning buffer         *)
(* ArrayPtr<Type> (array_ptr.h).  Two containers, "a" and "b", live on a   *)
(* heap of numbered allocations.  Type is a scalar type: moving an element *)
(* copies it and leaves the source slot as it was.                         *)
(***************************************************************************)
EXTENDS Integers, Sequences, FiniteSets, TLC

\* ------------------------------------------------------------------ bounds
\* The allocator can hand out at most HeapLimit slots in total.
HeapLimit == 6
\* Largest size or capacity a caller asks for, longest initializer list.
MaxSize == 3

\* Type{} : the value-initialised element (src/simple_vector.h:28).
DefaultValue == 0

\* Element values.  Two are enough to tell a slot from its neighbour.
Vals == {0, 1}

\* The containers of the program.
Vecs == {"a", "b"}
\* Allocation identities; 0 is the null pointer.  One more than there are
\* containers: a growing operation holds the old and the new buffer at once.
MaxBuf == Cardinality(Vecs) + 1
Ptrs == 1..MaxBuf

VARIABLES
    vec,    \* vec[v] = [items_, size_, capacity_] : the fields of container v
    heap,   \* heap[p] = the slots of allocation p, << >> when p is not allocated
    error   \* what the last operation raised, "none" when it returned

vars == <<vec, heap, error>>

\* ------------------------------------------------------------- ArrayPtr
Min(x, y) == IF x < y THEN x ELSE y
Max(x, y) == IF x > y THEN x ELSE y

RECURSIVE SumLen(_, _)
SumLen(h, p) == IF p = 0 THEN 0 ELSE Len(h[p]) + SumLen(h, p - 1)

\* Slots currently allocated.
Used(h) == SumLen(h, MaxBuf)

\* The slots behind pointer p (none behind the null pointer).
Slots(h, p) == IF p = 0 THEN << >> ELSE h[p]

\* ArrayPtr(size) succeeds: size 0 never calls the allocator; otherwise the
\* allocator must have the room and must not refuse (fail).
CanAlloc(h, n, fail) == n = 0 \/ (~fail /\ Used(h) + n <= HeapLimit)

\* The address the allocator returns: a block that is not allocated.
NewPtr(h) == CHOOSE p \in Ptrs : h[p] = << >> /\ \A q \in Ptrs : q < p => h[q] # << >>

\* ArrayPtr(size): [p, heap].  new Type[size] leaves the slots
\* uninitialised: slot i holds the indeterminate value junk[i].
Alloc(h, n, junk) ==
    IF n = 0 THEN [p |-> 0, heap |-> h]
    ELSE LET p == NewPtr(h)
         IN  [p |-> p, heap |-> [h EXCEPT ![p] = [i \in 1..n |-> junk[i]]]]

\* ~ArrayPtr: delete[] raw_ptr_.
Free(h, p) == IF p = 0 THEN h ELSE [h EXCEPT ![p] = << >>]

\* ------------------------------------------------------- <algorithm>
\* *(p + i) = x
Store(h, p, i, x) == [h EXCEPT ![p][i + 1] = x]

\* std::copy / std::move(first, last, d_first): front to back, one element
\* at a time, on ranges [sp+first, sp+last) -> dp+d.
RECURSIVE StdCopy(_, _, _, _, _, _)
StdCopy(h, sp, first, lst, dp, d) ==
    IF first >= lst THEN h
    ELSE StdCopy(Store(h, dp, d, h[sp][first + 1]), sp, first + 1, lst, dp, d + 1)

\* The same shift done front to back, the first element first.
StdCopyFrontFirst(h, sp, first, lst, dp, dlast) ==
    StdCopy(h, sp, first, lst, dp, dlast - (lst - first))

\* std::copy_backward / std::move_backward(first, last, d_last): back to
\* front, the last element first.
RECURSIVE StdCopyBackward(_, _, _, _, _, _)
StdCopyBackward(h, sp, first, lst, dp, dlast) ==
    IF first >= lst THEN h
    ELSE StdCopyBackward(Store(h, dp, dlast - 1, h[sp][lst]), sp, first, lst - 1, dp, dlast - 1)

\* std::fill(p + first, p + last, x)
RECURSIVE StdFill(_, _, _, _, _)
StdFill(h, p, first, lst, x) ==
    IF first >= lst THEN h
    ELSE StdFill(Store(h, p, first, x), p, first + 1, lst, x)

\* ------------------------------------------------------------ observers
EmptyVec == [items_ |-> 0, size_ |-> 0, capacity_ |-> 0]
NoHandle == [p |-> 0, i |-> 0]

\* An operation's outcome: the containers, the heap, the error raised
\* ("none" when it returned) and the position handle returned.
Out(vs, h, err, ret) == [vec |-> vs, heap |-> h, err |-> err, ret |-> ret]

IsEmpty(vs, v) == vs[v].size_ = 0
\* begin() + i
Pos(vs, v, i) == [p |-> vs[v].items_, i |-> i]
\* The live elements [begin(), end()).
Elems(vs, h, v) == [i \in 1..vs[v].size_ |-> h[vs[v].items_][i]]
\* The slots of the buffer the container owns.
Buffer(vs, h, v) == Slots(h, vs[v].items_)


\* ---------------------------------------------------------- construction
\* A constructor's result: the new object, the other containers (a move
\* changes its source) and the heap.
Built(obj, vs, h) == [obj |-> obj, vec |-> vs, heap |-> h]

\* SimpleVector() noexcept = default
SimpleVectorDefault(vs, h) == Built(EmptyVec, vs, h)

\* SimpleVector(size_t size, const Type& value)
SimpleVectorFill(vs, h, size, value, junk) ==
    LET a == Alloc(h, size, junk)
    IN  Built([items_ |-> a.p, size_ |-> size, capacity_ |-> size],
              vs, StdFill(a.heap, a.p, 0, size, value))

\* SimpleVector(size) that allocates and leaves the slots as they come.
SimpleVectorSizeUnfilled(vs, h, size, junk) ==
    LET a == Alloc(h, size, junk)
    IN  Built([items_ |-> a.p, size_ |-> size, capacity_ |-> size], vs, a.heap)

\* explicit SimpleVector(size_t size) : SimpleVector(size, Type{})
SimpleVectorSize(vs, h, size, junk) == SimpleVectorFill(vs, h, size, DefaultValue, junk)

RECURSIVE StoreList(_, _, _, _)
StoreList(h, p, init, k) ==
    IF k > Len(init) THEN h ELSE StoreList(Store(h, p, k - 1, init[k]), p, init, k + 1)

\* SimpleVector(std::initializer_list<Type> init)
SimpleVectorList(vs, h, init, junk) ==
    LET a == Alloc(h, Len(init), junk)
    IN  Built([items_ |-> a.p, size_ |-> Len(init), capacity_ |-> Len(init)],
              vs, StoreList(a.heap, a.p, init, 1))

\* SimpleVector(ReserveProxyObj reserved)
SimpleVectorReserved(vs, h, capacity, junk) ==
    LET a == Alloc(h, capacity, junk)
    IN  Built([items_ |-> a.p, size_ |-> 0, capacity_ |-> capacity], vs, a.heap)

\* Copy constructor that takes the pointer of the source instead of
\* allocating a buffer of its own.
SimpleVectorCopyShares(vs, h, other, junk) ==
    Built([items_ |-> vs[other].items_, size_ |-> vs[other].size_,
           capacity_ |-> vs[other].size_], vs, h)

\* SimpleVector(const SimpleVector& other)
SimpleVectorCopy(vs, h, other, junk) ==
    LET n == vs[other].size_
        a == Alloc(h, n, junk)
    IN  Built([items_ |-> a.p, size_ |-> n, capacity_ |-> n],
              vs, StdCopy(a.heap, vs[other].items_, 0, n, a.p, 0))

\* ArrayPtr(ArrayPtr&& other): the pointer moves, the source becomes null.
ArrayPtrMove(vs, other) == [taken |-> vs[other].items_,
                            vec |-> [vs EXCEPT ![other].items_ = 0]]

\* SimpleVector(SimpleVector&& other)
SimpleVectorMove(vs, h, other) ==
    LET m == ArrayPtrMove(vs, other)
    IN  Built([items_ |-> m.taken, size_ |-> vs[other].size_,
               capacity_ |-> vs[other].capacity_],
              [m.vec EXCEPT ![other].size_ = 0, ![other].capacity_ = 0], h)

\* ~SimpleVector of container v: its ArrayPtr deletes the buffer.
Destroy(vs, h, v) == Built(EmptyVec, [vs EXCEPT ![v] = EmptyVec], Free(h, vs[v].items_))

\* ------------------------------------------------------------- operations
\* void swap(SimpleVector& other) noexcept
Swap(vs, h, v, other) ==
    Out([vs EXCEPT ![v] = vs[other], ![other] = vs[v]], h, "none", NoHandle)

\* void Clear() noexcept
Clear(vs, h, v) == Out([vs EXCEPT ![v].size_ = 0], h, "none", NoHandle)

\* ReallocateCopy that leaves the last live element behind.
ReallocateCopyDropsLast(vs, h, v, new_capacity, fail, junk) ==
    IF ~CanAlloc(h, new_capacity, fail) THEN [ok |-> FALSE, p |-> 0, heap |-> h]
    ELSE LET a == Alloc(h, new_capacity, junk)
             copy_size == Min(new_capacity, vs[v].size_) - 1
         IN  [ok |-> TRUE, p |-> a.p,
              heap |-> StdCopy(a.heap, vs[v].items_, 0, copy_size, a.p, 0)]

\* ItemsPtr ReallocateCopy(size_t new_capacity) const : [ok, p, heap];
\* ok is FALSE when ArrayPtr's constructor raised.
ReallocateCopy(vs, h, v, new_capacity, fail, junk) ==
    IF ~CanAlloc(h, new_capacity, fail) THEN [ok |-> FALSE, p |-> 0, heap |-> h]
    ELSE LET a == Alloc(h, new_capacity, junk)
             copy_size == Min(new_capacity, vs[v].size_)
         IN  [ok |-> TRUE, p |-> a.p,
              heap |-> StdCopy(a.heap, vs[v].items_, 0, copy_size, a.p, 0)]

\* Reserve that swaps the buffers and forgets capacity_.
ReserveKeepsCapacity(vs, h, v, new_capacity, fail, junk) ==
    IF vs[v].capacity_ < new_capacity
    THEN LET r == ReallocateCopy(vs, h, v, new_capacity, fail, junk)
         IN  IF ~r.ok THEN Out(vs, h, "AllocationError", NoHandle)
             ELSE Out([vs EXCEPT ![v].items_ = r.p],
                      Free(r.heap, vs[v].items_), "none", NoHandle)
    ELSE Out(vs, h, "none", NoHandle)

\* Reserve that hands over a new buffer without moving the elements in.
ReserveWithoutCopy(vs, h, v, new_capacity, fail, junk) ==
    IF vs[v].capacity_ < new_capacity
    THEN IF ~CanAlloc(h, new_capacity, fail) THEN Out(vs, h, "AllocationError", NoHandle)
         ELSE LET a == Alloc(h, new_capacity, junk)
              IN  Out([vs EXCEPT ![v].items_ = a.p, ![v].capacity_ = new_capacity],
                      Free(a.heap, vs[v].items_), "none", NoHandle)
    ELSE Out(vs, h, "none", NoHandle)

\* void Reserve(size_t new_capacity)
Reserve(vs, h, v, new_capacity, fail, junk) ==
    IF vs[v].capacity_ < new_capacity
    THEN LET r == ReallocateCopy(vs, h, v, new_capacity, fail, junk)
         IN  IF ~r.ok THEN Out(vs, h, "AllocationError", NoHandle)
             ELSE Out([vs EXCEPT ![v].items_ = r.p, ![v].capacity_ = new_capacity],
                      Free(r.heap, vs[v].items_), "none", NoHandle)
    ELSE Out(vs, h, "none", NoHandle)

\* Resize that grows the size without filling the slots it takes in.
ResizeLeavesStale(vs, h, v, new_size, fail, junk) ==
    IF new_size > vs[v].capacity_
    THEN LET new_capacity == Max(vs[v].capacity_ * 2, new_size)
             r == ReallocateCopy(vs, h, v, new_capacity, fail, junk)
         IN  IF ~r.ok THEN Out(vs, h, "AllocationError", NoHandle)
             ELSE Out([vs EXCEPT ![v].items_ = r.p, ![v].capacity_ = new_capacity,
                                 ![v].size_ = new_size],
                      Free(r.heap, vs[v].items_), "none", NoHandle)
    ELSE Out([vs EXCEPT ![v].size_ = new_size], h, "none", NoHandle)

\* void Resize(size_t new_size)
Resize(vs, h, v, new_size, fail, junk) ==
    IF new_size > vs[v].capacity_
    THEN LET new_capacity == Max(vs[v].capacity_ * 2, new_size)
             r == ReallocateCopy(vs, h, v, new_capacity, fail, junk)
         IN  IF ~r.ok THEN Out(vs, h, "AllocationError", NoHandle)
             ELSE Out([vs EXCEPT ![v].items_ = r.p, ![v].capacity_ = new_capacity,
                                 ![v].size_ = new_size],
                      Free(StdFill(r.heap, r.p, vs[v].size_, new_size, DefaultValue),
                           vs[v].items_),
                      "none", NoHandle)
    ELSE IF new_size > vs[v].size_
    THEN Out([vs EXCEPT ![v].size_ = new_size],
             StdFill(h, vs[v].items_, vs[v].size_, new_size, DefaultValue),
             "none", NoHandle)
    ELSE Out([vs EXCEPT ![v].size_ = new_size], h, "none", NoHandle)

\* PushBack that grows by one slot instead of doubling.
PushBackGrowsByOne(vs, h, v, item, fail, junk) ==
    LET new_size == vs[v].size_ + 1
    IN  IF vs[v].capacity_ < new_size
        THEN LET vs1 == [vs EXCEPT ![v].capacity_ = new_size]
                 r == ReallocateCopy(vs1, h, v, vs1[v].capacity_, fail, junk)
             IN  IF ~r.ok THEN Out(vs1, h, "AllocationError", NoHandle)
                 ELSE Out([vs1 EXCEPT ![v].items_ = r.p, ![v].size_ = new_size],
                          Free(Store(r.heap, r.p, vs[v].size_, item), vs[v].items_),
                          "none", NoHandle)
        ELSE Out([vs EXCEPT ![v].size_ = new_size],
                 Store(h, vs[v].items_, vs[v].size_, item), "none", NoHandle)

\* PushBack that grows a full container to one slot less than twice its
\* capacity.
PushBackDoublesLessOne(vs, h, v, item, fail, junk) ==
    LET new_size == vs[v].size_ + 1
    IN  IF vs[v].capacity_ < new_size
        THEN LET vs1 == [vs EXCEPT ![v].capacity_ = Max(vs[v].capacity_ * 2 - 1, new_size)]
                 r == ReallocateCopy(vs1, h, v, vs1[v].capacity_, fail, junk)
             IN  IF ~r.ok THEN Out(vs1, h, "AllocationError", NoHandle)
                 ELSE Out([vs1 EXCEPT ![v].items_ = r.p, ![v].size_ = new_size],
                          Free(Store(r.heap, r.p, vs[v].size_, item), vs[v].items_),
                          "none", NoHandle)
        ELSE Out([vs EXCEPT ![v].size_ = new_size],
                 Store(h, vs[v].items_, vs[v].size_, item), "none", NoHandle)

\* void PushBack(const Type& item) / void PushBack(Type&& item)
PushBack(vs, h, v, item, fail, junk) ==
    LET new_size == vs[v].size_ + 1
    IN  IF vs[v].capacity_ < new_size
        THEN LET vs1 == [vs EXCEPT ![v].capacity_ = Max(vs[v].capacity_ * 2, new_size)]
                 r == ReallocateCopy(vs1, h, v, vs1[v].capacity_, fail, junk)
             IN  IF ~r.ok THEN Out(vs1, h, "AllocationError", NoHandle)
                 ELSE Out([vs1 EXCEPT ![v].items_ = r.p, ![v].size_ = new_size],
                          Free(Store(r.heap, r.p, vs[v].size_, item), vs[v].items_),
                          "none", NoHandle)
        ELSE Out([vs EXCEPT ![v].size_ = new_size],
                 Store(h, vs[v].items_, vs[v].size_, item), "none", NoHandle)

\* Insert that grows a full container to size + 1 slots, no further.
InsertGrowsToFit(vs, h, v, new_pos, value, fail, junk) ==
    LET new_size == vs[v].size_ + 1
        old == vs[v].items_
    IN  IF new_size <= vs[v].capacity_
        THEN LET shifted == StdCopyBackward(h, old, new_pos, vs[v].size_, old, vs[v].size_ + 1)
                 vs2 == [vs EXCEPT ![v].size_ = new_size]
             IN  Out(vs2, Store(shifted, old, new_pos, value), "none", Pos(vs2, v, new_pos))
        ELSE LET vs1 == [vs EXCEPT ![v].capacity_ = new_size]
             IN  IF ~CanAlloc(h, vs1[v].capacity_, fail)
                 THEN Out(vs1, h, "AllocationError", NoHandle)
                 ELSE LET a == Alloc(h, vs1[v].capacity_, junk)
                          h1 == StdCopy(a.heap, old, 0, new_pos, a.p, 0)
                          h2 == Store(h1, a.p, new_pos, value)
                          h3 == StdCopy(h2, old, new_pos, vs[v].size_, a.p, new_pos + 1)
                          vs2 == [vs1 EXCEPT ![v].items_ = a.p, ![v].size_ = new_size]
                      IN  Out(vs2, Free(h3, old), "none", Pos(vs2, v, new_pos))

\* Insert that returns pos, the handle it was given.
InsertReturnsPos(vs, h, v, new_pos, value, fail, junk) ==
    LET new_size == vs[v].size_ + 1
        old == vs[v].items_
    IN  IF new_size <= vs[v].capacity_
        THEN LET shifted == StdCopyBackward(h, old, new_pos, vs[v].size_, old, vs[v].size_ + 1)
                 vs2 == [vs EXCEPT ![v].size_ = new_size]
             IN  Out(vs2, Store(shifted, old, new_pos, value), "none", Pos(vs, v, new_pos))
        ELSE LET vs1 == [vs EXCEPT ![v].capacity_ = Max(vs[v].capacity_ * 2, new_size)]
             IN  IF ~CanAlloc(h, vs1[v].capacity_, fail)
                 THEN Out(vs1, h, "AllocationError", NoHandle)
                 ELSE LET a == Alloc(h, vs1[v].capacity_, junk)
                          h1 == StdCopy(a.heap, old, 0, new_pos, a.p, 0)
                          h2 == Store(h1, a.p, new_pos, value)
                          h3 == StdCopy(h2, old, new_pos, vs[v].size_, a.p, new_pos + 1)
                          vs2 == [vs1 EXCEPT ![v].items_ = a.p, ![v].size_ = new_size]
                      IN  Out(vs2, Free(h3, old), "none", Pos(vs, v, new_pos))

\* Iterator Insert(ConstIterator pos, const Type& value) /
\* Iterator Insert(ConstIterator pos, Type&& value); pos = begin() + new_pos
Insert(vs, h, v, new_pos, value, fail, junk) ==
    LET new_size == vs[v].size_ + 1
        old == vs[v].items_
    IN  IF new_size <= vs[v].capacity_
        THEN LET shifted == StdCopyBackward(h, old, new_pos, vs[v].size_, old, vs[v].size_ + 1)
                 vs2 == [vs EXCEPT ![v].size_ = new_size]
             IN  Out(vs2, Store(shifted, old, new_pos, value), "none", Pos(vs2, v, new_pos))
        ELSE LET vs1 == [vs EXCEPT ![v].capacity_ = Max(vs[v].capacity_ * 2, new_size)]
             IN  IF ~CanAlloc(h, vs1[v].capacity_, fail)
                 THEN Out(vs1, h, "AllocationError", NoHandle)
                 ELSE LET a == Alloc(h, vs1[v].capacity_, junk)
                          h1 == StdCopy(a.heap, old, 0, new_pos, a.p, 0)
                          h2 == Store(h1, a.p, new_pos, value)
                          h3 == StdCopy(h2, old, new_pos, vs[v].size_, a.p, new_pos + 1)
                          vs2 == [vs1 EXCEPT ![v].items_ = a.p, ![v].size_ = new_size]
                      IN  Out(vs2, Free(h3, old), "none", Pos(vs2, v, new_pos))

\* PopBack that also gives the last slot back: capacity_ follows size_.
PopBackShrinks(vs, h, v) ==
    Out([vs EXCEPT ![v].size_ = vs[v].size_ - 1, ![v].capacity_ = vs[v].size_ - 1],
        h, "none", NoHandle)

\* void PopBack() noexcept
PopBack(vs, h, v) == Out([vs EXCEPT ![v].size_ = vs[v].size_ - 1], h, "none", NoHandle)

\* Erase that closes the gap by shifting the whole sequence down from its
\* front.
EraseShiftsAll(vs, h, v, at) ==
    LET p == vs[v].items_
    IN  Out([vs EXCEPT ![v].size_ = vs[v].size_ - 1],
            StdCopy(h, p, 1, vs[v].size_, p, 0), "none", Pos(vs, v, at))

\* Erase that only decrements size_.
EraseWithoutShift(vs, h, v, at) ==
    Out([vs EXCEPT ![v].size_ = vs[v].size_ - 1], h, "none", Pos(vs, v, at))

\* Iterator Erase(ConstIterator pos); pos = begin() + at
Erase(vs, h, v, at) ==
    LET p == vs[v].items_
    IN  Out([vs EXCEPT ![v].size_ = vs[v].size_ - 1],
            StdCopy(h, p, at + 1, vs[v].size_, p, at), "none", Pos(vs, v, at))

\* Type& operator[](size_t index) noexcept, written through: v[index] = value
IndexAssign(vs, h, v, index, value) ==
    Out(vs, Store(h, vs[v].items_, index, value), "none", NoHandle)

\* At that checks the index against capacity_.
AtChecksCapacity(vs, h, v, index) ==
    IF index >= vs[v].capacity_ THEN Out(vs, h, "OutOfRange", NoHandle)
    ELSE Out(vs, h, "none", Pos(vs, v, index))

\* Type& At(size_t index) / const Type& At(size_t index) const: the
\* reference returned is the handle of slot index.
At(vs, h, v, index) ==
    IF index >= vs[v].size_ THEN Out(vs, h, "OutOfRange", NoHandle)
    ELSE Out(vs, h, "none", Pos(vs, v, index))

\* Reading through a reference or position handle.
Deref(h, handle) == h[handle.p][handle.i + 1]

\* operator=(const&) that clears the target whatever the source holds.
CopyAssignClearsAlways(vs, h, v, rhs, fail, junk) ==
    IF rhs # v
    THEN LET vs1 == Clear(vs, h, v).vec
         IN  IF ~CanAlloc(h, vs1[rhs].size_, fail)
             THEN Out(vs1, h, "AllocationError", NoHandle)
             ELSE LET rhs_copy == SimpleVectorCopy(vs1, h, rhs, junk)
                  IN  Out([vs1 EXCEPT ![v] = rhs_copy.obj],
                          Free(rhs_copy.heap, vs1[v].items_), "none", NoHandle)
    ELSE Out(vs, h, "none", NoHandle)

\* SimpleVector& operator=(const SimpleVector& rhs)
CopyAssign(vs, h, v, rhs, fail, junk) ==
    IF rhs # v
    THEN LET vs1 == IF IsEmpty(vs, rhs) THEN Clear(vs, h, v).vec ELSE vs
         IN  IF ~CanAlloc(h, vs1[rhs].size_, fail)
             THEN Out(vs1, h, "AllocationError", NoHandle)
             ELSE LET rhs_copy == SimpleVectorCopy(vs1, h, rhs, junk)
                  IN  \* swap(rhs_copy), then rhs_copy is destroyed
                      Out([vs1 EXCEPT ![v] = rhs_copy.obj],
                          Free(rhs_copy.heap, vs1[v].items_), "none", NoHandle)
    ELSE Out(vs, h, "none", NoHandle)

\* ArrayPtr& operator=(ArrayPtr&& rhs): the buffer held so far is deleted,
\* the pointer moves, the source becomes null.
ArrayPtrMoveAssign(vs, h, v, rhs) ==
    [vec |-> [vs EXCEPT ![v].items_ = vs[rhs].items_, ![rhs].items_ = 0],
     heap |-> Free(h, vs[v].items_)]

\* operator=(&&) that leaves rhs.size_ as it was.
MoveAssignKeepsSize(vs, h, v, rhs) ==
    LET m == ArrayPtrMoveAssign(vs, h, v, rhs)
    IN  Out([m.vec EXCEPT ![v].size_ = vs[rhs].size_,
                          ![v].capacity_ = vs[rhs].capacity_, ![rhs].capacity_ = 0],
            m.heap, "none", NoHandle)

\* SimpleVector& operator=(SimpleVector&& rhs)
MoveAssign(vs, h, v, rhs) ==
    LET m == ArrayPtrMoveAssign(vs, h, v, rhs)
    IN  Out([m.vec EXCEPT ![v].size_ = vs[rhs].size_, ![rhs].size_ = 0,
                          ![v].capacity_ = vs[rhs].capacity_, ![rhs].capacity_ = 0],
            m.heap, "none", NoHandle)

\* ------------------------------------------------------------ comparisons
\* std::equal(first1, last1, first2) on [p1+first, p1+lst) and p2+d
RECURSIVE StdEqual(_, _, _, _, _, _)
StdEqual(h, p1, first, lst, p2, d) ==
    IF first >= lst THEN TRUE
    ELSE /\ h[p1][first + 1] = h[p2][d + 1]
         /\ StdEqual(h, p1, first + 1, lst, p2, d + 1)

\* std::lexicographical_compare(first1, last1, first2, last2)
RECURSIVE StdLexicographicalCompare(_, _, _, _, _, _, _)
StdLexicographicalCompare(h, p1, first1, last1, p2, first2, last2) ==
    IF first1 >= last1 \/ first2 >= last2 THEN first1 >= last1 /\ first2 < last2
    ELSE IF h[p1][first1 + 1] < h[p2][first2 + 1] THEN TRUE
    ELSE IF h[p2][first2 + 1] < h[p1][first1 + 1] THEN FALSE
    ELSE StdLexicographicalCompare(h, p1, first1 + 1, last1, p2, first2 + 1, last2)

\* operator==
Equal(vs, h, lhs, rhs) ==
    \/ lhs = rhs
    \/ /\ vs[lhs].size_ = vs[rhs].size_
       /\ StdEqual(h, vs[lhs].items_, 0, vs[lhs].size_, vs[rhs].items_, 0)

\* operator!=
NotEqual(vs, h, lhs, rhs) == ~Equal(vs, h, lhs, rhs)

\* operator<
Less(vs, h, lhs, rhs) ==
    StdLexicographicalCompare(h, vs[lhs].items_, 0, vs[lhs].size_,
                                 vs[rhs].items_, 0, vs[rhs].size_)

\* operator<= : !(rhs < lhs)
LessEq(vs, h, lhs, rhs) == ~Less(vs, h, rhs, lhs)

\* operator> : (rhs < lhs)
Greater(vs, h, lhs, rhs) == Less(vs, h, rhs, lhs)

\* operator>= : !(lhs > rhs)
GreaterEq(vs, h, lhs, rhs) == ~Greater(vs, h, lhs, rhs)

\* ---------------------------------------------------------------- actions
\* Sizes a caller asks for, and initializer lists.
Sizes == 0..MaxSize
Lists == UNION {[1..n -> Vals] : n \in 0..MaxSize}

\* What n freshly allocated slots can hold when the operation goes on to
\* write the first k of them: any values in the slots it leaves alone.
Junk(n, k) == {j \in [1..n -> Vals] : \A i \in 1..n : i <= k => j[i] = DefaultValue}
NoJunk == Junk(0, 0)

\* Slot indices below n exist in the buffer container v owns.  The code
\* never checks it; an operation that writes past the buffer has undefined
\* behaviour and is not a step of the model.
Fits(vs, h, v, n) == n <= Len(Buffer(vs, h, v))

\* Addresses mean nothing beyond identity, so the state is kept up to a
\* renaming of the allocations: the buffer of "a" comes first, then the
\* buffer of "b", then the allocations no container points to.
RECURSIVE Others(_, _)
Others(seen, p) ==
    IF p > MaxBuf THEN << >>
    ELSE (IF p \in seen THEN << >> ELSE <<p>>) \o Others(seen, p + 1)

AddressOrder(vs) ==
    LET pa == vs["a"].items_
        pb == vs["b"].items_
        head == (IF pa # 0 THEN <<pa>> ELSE << >>)
                    \o (IF pb # 0 /\ pb # pa THEN <<pb>> ELSE << >>)
    IN  head \o Others({head[k] : k \in 1..Len(head)}, 1)

Renamed(order, p) == IF p = 0 THEN 0 ELSE CHOOSE k \in Ptrs : order[k] = p

\* An error is propagated to the caller, and the caller gives up: the run
\* the model follows ends with the first operation that raises.
Running == error = "none"

\* The state after an operation with outcome o.
Do(o) ==
    \E out \in {o} : \E order \in {AddressOrder(out.vec)} :
        /\ vec' = [w \in Vecs |-> [out.vec[w] EXCEPT !.items_ = Renamed(order, @)]]
        /\ heap' = [p \in Ptrs |-> out.heap[order[p]]]
        /\ error' = out.err

\* Container v ends its life and a new one, built by a constructor with
\* result b on the heap Destroy left, takes its place.
Renew(v, b) ==
    \E built \in {b} :
        Do(Out([built.vec EXCEPT ![v] = built.obj], built.heap, "none", NoHandle))

Init ==
    /\ vec = [v \in Vecs |-> EmptyVec]
    /\ heap = [p \in Ptrs |-> << >>]
    /\ error = "none"

ConstructDefault(v) ==
    /\ Running
    /\ LET d == Destroy(vec, heap, v)
       IN  Renew(v, SimpleVectorDefault(d.vec, d.heap))

ConstructSize(v) ==
    /\ Running
    /\ \E n \in Sizes : \E junk \in Junk(n, n) :
           LET d == Destroy(vec, heap, v)
           IN  CanAlloc(d.heap, n, FALSE)
               /\ Renew(v, SimpleVectorSize(d.vec, d.heap, n, junk))

ConstructFill(v) ==
    /\ Running
    /\ \E n \in Sizes, x \in Vals : \E junk \in Junk(n, n) :
           LET d == Destroy(vec, heap, v)
           IN  CanAlloc(d.heap, n, FALSE)
               /\ Renew(v, SimpleVectorFill(d.vec, d.heap, n, x, junk))

ConstructList(v) ==
    /\ Running
    /\ \E init \in Lists : \E junk \in Junk(Len(init), Len(init)) :
           LET d == Destroy(vec, heap, v)
           IN  CanAlloc(d.heap, Len(init), FALSE)
               /\ Renew(v, SimpleVectorList(d.vec, d.heap, init, junk))

ConstructReserved(v) ==
    /\ Running
    /\ \E n \in Sizes : \E junk \in Junk(n, 0) :
           LET d == Destroy(vec, heap, v)
           IN  CanAlloc(d.heap, n, FALSE)
               /\ Renew(v, SimpleVectorReserved(d.vec, d.heap, n, junk))

ConstructCopy(v) ==
    /\ Running
    /\ \E other \in Vecs \ {v} : \E junk \in Junk(vec[other].size_, vec[other].size_) :
           LET d == Destroy(vec, heap, v)
           IN  CanAlloc(d.heap, vec[other].size_, FALSE)
               /\ Renew(v, SimpleVectorCopy(d.vec, d.heap, other, junk))

ConstructMove(v) ==
    /\ Running
    /\ \E other \in Vecs \ {v} :
           LET d == Destroy(vec, heap, v)
           IN  Renew(v, SimpleVectorMove(d.vec, d.heap, other))

\* Whether the allocator refuses: a choice only when it is called.
Refusals(allocates) == IF allocates THEN BOOLEAN ELSE {FALSE}

\* The slots a copy of container rhs allocates: all of them get written.
CopyJunk(vs, rhs) == Junk(vs[rhs].size_, vs[rhs].size_)

DoCopyAssign(v) ==
    /\ Running
    /\ \E rhs \in Vecs : \E fail \in Refusals(rhs # v /\ ~IsEmpty(vec, rhs)) :
           \E junk \in CopyJunk(vec, rhs) :
               Do(CopyAssign(vec, heap, v, rhs, fail, junk))

\* Moving a container into itself goes through ArrayPtr's self-move, which
\* nothing specifies: the source is another container.
DoMoveAssign(v) ==
    /\ Running
    /\ \E rhs \in Vecs \ {v} : Do(MoveAssign(vec, heap, v, rhs))

DoSwap(v) ==
    /\ Running
    /\ \E other \in Vecs : Do(Swap(vec, heap, v, other))

\* The slots a growing operation allocates: none when it does not grow.
Fresh(grows, n, k) == IF grows THEN Junk(n, k) ELSE NoJunk

ReserveJunk(vs, v, n, fail) == Fresh(vs[v].capacity_ < n /\ ~fail, n, vs[v].size_)

DoReserve(v) ==
    /\ Running
    /\ \E n \in Sizes : \E fail \in Refusals(vec[v].capacity_ < n) :
           \E junk \in ReserveJunk(vec, v, n, fail) :
               Do(Reserve(vec, heap, v, n, fail, junk))

\* Growing in place fills [size_, new_size), which must lie in the buffer.
ResizePre(vs, h, v, n) == n <= vs[v].capacity_ => Fits(vs, h, v, n)

ResizeJunk(vs, v, n, fail) ==
    Fresh(n > vs[v].capacity_ /\ ~fail, Max(vs[v].capacity_ * 2, n), n)

DoResize(v) ==
    /\ Running
    /\ \E n \in Sizes : \E fail \in Refusals(n > vec[v].capacity_) :
           \E junk \in ResizeJunk(vec, v, n, fail) :
               ResizePre(vec, heap, v, n) /\ Do(Resize(vec, heap, v, n, fail, junk))

DoClear(v) ==
    /\ Running
    /\ Do(Clear(vec, heap, v))

\* Appending in place writes slot size_, which must lie in the buffer.
PushBackPre(vs, h, v) == vs[v].size_ + 1 <= vs[v].capacity_ => Fits(vs, h, v, vs[v].size_ + 1)

\* The capacity PushBack and Insert grow to.
Grown(vs, v) == Max(vs[v].capacity_ * 2, vs[v].size_ + 1)

PushBackJunk(vs, v, fail) ==
    Fresh(vs[v].capacity_ < vs[v].size_ + 1 /\ ~fail, Grown(vs, v), vs[v].size_ + 1)

DoPushBack(v) ==
    /\ Running
    /\ \E x \in Vals, fail \in Refusals(vec[v].capacity_ < vec[v].size_ + 1) :
           \E junk \in PushBackJunk(vec, v, fail) :
               PushBackPre(vec, heap, v) /\ Do(PushBack(vec, heap, v, x, fail, junk))

\* assert(begin() <= pos && pos <= end())
InsertPre(vs, h, v, new_pos) == new_pos \in 0..vs[v].size_ /\ PushBackPre(vs, h, v)

DoInsert(v) ==
    /\ Running
    /\ \E new_pos \in 0..vec[v].size_, x \in Vals,
          fail \in Refusals(vec[v].capacity_ < vec[v].size_ + 1) :
           \E junk \in PushBackJunk(vec, v, fail) :
               InsertPre(vec, heap, v, new_pos)
               /\ Do(Insert(vec, heap, v, new_pos, x, fail, junk))

\* assert(!IsEmpty())
DoPopBack(v) ==
    /\ Running
    /\ ~IsEmpty(vec, v) /\ Do(PopBack(vec, heap, v))

\* assert(begin() <= pos && pos < end())
DoErase(v) ==
    /\ Running
    /\ \E at \in 0..(vec[v].size_ - 1) : Do(Erase(vec, heap, v, at))

\* assert(index < size_)
DoIndexAssign(v) ==
    /\ Running
    /\ \E index \in 0..(vec[v].size_ - 1), x \in Vals :
           Do(IndexAssign(vec, heap, v, index, x))

\* Indices a caller passes to At: no buffer has more than HeapLimit slots.
Indices == 0..HeapLimit

DoAt(v) ==
    /\ Running
    /\ \E index \in Indices : Do(At(vec, heap, v, index))

Next ==
    \E v \in Vecs :
        \/ ConstructDefault(v)
        \/ ConstructSize(v)
        \/ ConstructFill(v)
        \/ ConstructList(v)
        \/ ConstructReserved(v)
        \/ ConstructCopy(v)
        \/ ConstructMove(v)
        \/ DoCopyAssign(v)
        \/ DoMoveAssign(v)
        \/ DoSwap(v)
        \/ DoReserve(v)
        \/ DoResize(v)
        \/ DoClear(v)
        \/ DoPushBack(v)
        \/ DoInsert(v)
        \/ DoPopBack(v)
        \/ DoErase(v)
        \/ DoIndexAssign(v)
        \/ DoAt(v)

Spec == Init /\ [][Next]_vars

\* Containers that start default-constructed and are only ever appended to,
\* or moved from one into the other.
NextPushBackOnly ==
    \E v \in Vecs :
        \/ DoPushBack(v)
        \/ DoMoveAssign(v)

SpecPushBackOnly == Init /\ [][NextPushBackOnly]_vars

\* ------------------------------------------------------------- properties
\* capacity_ is the number of slots of the buffer container v owns.
OwnsCapacity(vs, h, v) == vs[v].capacity_ = Len(Buffer(vs, h, v))

\* Outcome o of an operation on container v, called in the current state,
\* raised AllocationError and left size, capacity, buffer and elements
\* as they were, capacity being the slot count of the buffer.
FailedCleanly(o, v) ==
    o.err = "AllocationError" =>
        /\ o.vec[v] = vec[v]
        /\ o.heap = heap
        /\ OwnsCapacity(o.vec, o.heap, v)

\* C1: a growth-triggering operation (Reserve, Resize, PushBack, Insert)
\* whose allocation fails with AllocationError leaves size, capacity, the
\* owned buffer and the live elements exactly as before the call, and
\* capacity is still the slot count of the owned buffer.
C1_FailedGrowthChangesNothing ==
    Running =>
        \A v \in Vecs, fail \in BOOLEAN :
            /\ \A n \in Sizes : \A junk \in ReserveJunk(vec, v, n, fail) :
                   FailedCleanly(Reserve(vec, heap, v, n, fail, junk), v)
            /\ \A n \in Sizes : \A junk \in ResizeJunk(vec, v, n, fail) :
                   ResizePre(vec, heap, v, n)
                       => FailedCleanly(Resize(vec, heap, v, n, fail, junk), v)
            /\ \A x \in Vals : \A junk \in PushBackJunk(vec, v, fail) :
                   PushBackPre(vec, heap, v)
                       => FailedCleanly(PushBack(vec, heap, v, x, fail, junk), v)
            /\ \A new_pos \in 0..vec[v].size_, x \in Vals : \A junk \in PushBackJunk(vec, v, fail) :
                   InsertPre(vec, heap, v, new_pos)
                       => FailedCleanly(Insert(vec, heap, v, new_pos, x, fail, junk), v)

\* operator=(const&) without the branch that clears the target when the
\* source is empty.
CopyAssignWithoutClear(vs, h, v, rhs, fail, junk) ==
    IF rhs # v
    THEN IF ~CanAlloc(h, vs[rhs].size_, fail)
         THEN Out(vs, h, "AllocationError", NoHandle)
         ELSE LET rhs_copy == SimpleVectorCopy(vs, h, rhs, junk)
              IN  Out([vs EXCEPT ![v] = rhs_copy.obj],
                      Free(rhs_copy.heap, vs[v].items_), "none", NoHandle)
    ELSE Out(vs, h, "none", NoHandle)

\* What a caller can observe of an outcome: the error, and each container's
\* size, capacity and live elements.
Observed(o) ==
    [err |-> o.err,
     vec |-> [v \in Vecs |-> [size |-> o.vec[v].size_, capacity |-> o.vec[v].capacity_,
                              elems |-> Elems(o.vec, o.heap, v)]]]

\* C2: copy-assignment is exception-safe: for every target and source (an
\* empty source and the target itself included), when building the deep
\* copy fails the target's size, capacity and live elements are unmodified;
\* and the branch that clears the target for an empty source changes no
\* outcome.
C2_CopyAssignExceptionSafe ==
    Running =>
        \A v \in Vecs, rhs \in Vecs, fail \in BOOLEAN : \A junk \in CopyJunk(vec, rhs) :
            LET o == CopyAssign(vec, heap, v, rhs, fail, junk)
            IN  /\ o.err = "AllocationError" =>
                       /\ o.vec[v].size_ = vec[v].size_
                       /\ o.vec[v].capacity_ = vec[v].capacity_
                       /\ Elems(o.vec, o.heap, v) = Elems(vec, heap, v)
                /\ Observed(o) = Observed(CopyAssignWithoutClear(vec, heap, v, rhs, fail, junk))

\* A copy-assignment into a container that holds elements fails.
C2_Witness ==
    /\ Running
    /\ \E v \in Vecs : \E rhs \in Vecs \ {v} :
           /\ vec[v].size_ > 0
           /\ CopyAssign(vec, heap, v, rhs, TRUE, NoJunk).err = "AllocationError"

\* C3: in every state reached by operations that all returned without an
\* error, size <= capacity and capacity is the number of slots of the
\* buffer the container owns (0 slots when it owns none).
C3_SizeCapacityBuffer ==
    Running =>
        \A v \in Vecs :
            /\ vec[v].size_ <= vec[v].capacity_
            /\ vec[v].capacity_ = Len(Buffer(vec, heap, v))

\* Both containers own a buffer, one of them grown beyond its size.
C3_Witness ==
    /\ Running
    /\ vec["a"].size_ = 3 /\ vec["a"].capacity_ = 4 /\ Len(heap[vec["a"].items_]) = 4
    /\ vec["b"].size_ = 2 /\ vec["b"].capacity_ = 2

\* The capacity of container v does not go down from the current state to
\* outcome o.
KeepsCapacity(o, v) == o.vec[v].capacity_ >= vec[v].capacity_

\* Index assignment, PushBack, Insert, Erase, PopBack, Resize, Reserve and
\* Clear on container v never decrease its capacity.
MutationsKeepCapacity(v) ==
    /\ \A index \in 0..(vec[v].size_ - 1), x \in Vals :
           KeepsCapacity(IndexAssign(vec, heap, v, index, x), v)
    /\ \A x \in Vals, fail \in BOOLEAN : \A junk \in PushBackJunk(vec, v, fail) :
           /\ PushBackPre(vec, heap, v)
                  => KeepsCapacity(PushBack(vec, heap, v, x, fail, junk), v)
           /\ \A new_pos \in 0..vec[v].size_ :
                  InsertPre(vec, heap, v, new_pos)
                      => KeepsCapacity(Insert(vec, heap, v, new_pos, x, fail, junk), v)
    /\ \A at \in 0..(vec[v].size_ - 1) : KeepsCapacity(Erase(vec, heap, v, at), v)
    /\ ~IsEmpty(vec, v) => KeepsCapacity(PopBack(vec, heap, v), v)
    /\ \A n \in Sizes, fail \in BOOLEAN :
           /\ \A junk \in ResizeJunk(vec, v, n, fail) :
                  ResizePre(vec, heap, v, n)
                      => KeepsCapacity(Resize(vec, heap, v, n, fail, junk), v)
           /\ \A junk \in ReserveJunk(vec, v, n, fail) :
                  KeepsCapacity(Reserve(vec, heap, v, n, fail, junk), v)
    /\ KeepsCapacity(Clear(vec, heap, v), v)

\* C4 as the specification states it: no mutation of a container, copy-assignment of another
\* container into it included, decreases its capacity.
C4_CapacityNeverDecreases ==
    Running =>
        \A v \in Vecs :
            /\ MutationsKeepCapacity(v)
            /\ \A rhs \in Vecs \ {v} : \A fail \in BOOLEAN : \A junk \in CopyJunk(vec, rhs) :
                   KeepsCapacity(CopyAssign(vec, heap, v, rhs, fail, junk), v)

\* C4 as amended: index assignment, PushBack, Insert, Erase, PopBack,
\* Resize, Reserve and Clear never decrease the capacity of the container;
\* a copy-assignment that returns sets it to the size of the source, which
\* can be less than it was.
C4_MutationsNeverDecreaseCapacity ==
    Running =>
        \A v \in Vecs :
            /\ MutationsKeepCapacity(v)
            /\ \A rhs \in Vecs \ {v} : \A junk \in CopyJunk(vec, rhs) :
                   LET o == CopyAssign(vec, heap, v, rhs, FALSE, junk)
                   IN  o.err = "none" => o.vec[v].capacity_ = vec[rhs].size_

\* A full container that PushBack grows, next to an empty one whose
\* copy-assignment into it would lower its capacity.
C4_Witness ==
    /\ Running
    /\ \E v \in Vecs : \E rhs \in Vecs \ {v} :
           /\ vec[v].size_ = 2 /\ vec[v].capacity_ = 2
           /\ vec[rhs].size_ = 0
           /\ CopyAssign(vec, heap, v, rhs, FALSE, NoJunk).vec[v].capacity_ = 0
           /\ \E junk \in PushBackJunk(vec, v, FALSE) :
                  LET o == PushBack(vec, heap, v, 1, FALSE, junk)
                  IN  o.err = "none" /\ o.vec[v].capacity_ = 4

\* C5: after move-construction or move-assignment from container other,
\* the destination holds other's former elements, size and capacity and
\* owns other's former buffer, other has size = capacity = 0 and owns no
\* buffer; and in every reachable state no allocation is owned by two
\* containers.
MovedInto(o, v, other) ==
    /\ o.vec[v].items_ = vec[other].items_
    /\ o.vec[v].size_ = vec[other].size_
    /\ o.vec[v].capacity_ = vec[other].capacity_
    /\ Elems(o.vec, o.heap, v) = Elems(vec, heap, other)
    /\ o.vec[other] = EmptyVec

C5_MoveTransfersOwnership ==
    /\ \A v \in Vecs : \A w \in Vecs \ {v} : vec[v].items_ # 0 => vec[v].items_ # vec[w].items_
    /\ Running =>
           \A v \in Vecs : \A other \in Vecs \ {v} :
               /\ MovedInto(MoveAssign(vec, heap, v, other), v, other)
               /\ LET d == Destroy(vec, heap, v)
                      b == SimpleVectorMove(d.vec, d.heap, other)
                  IN  MovedInto(Out([b.vec EXCEPT ![v] = b.obj], b.heap, "none", NoHandle),
                                v, other)

\* A container with elements and spare capacity is moved into one that
\* owns a buffer of its own.
C5_Witness ==
    /\ Running
    /\ \E v \in Vecs : \E other \in Vecs \ {v} :
           /\ vec[other].size_ = 2 /\ vec[other].capacity_ = 3
           /\ vec[v].size_ = 1 /\ vec[v].items_ # 0
           /\ MoveAssign(vec, heap, v, other).vec[v].items_ = vec[other].items_

\* The part of C1 that Reserve and Resize keep.
ReserveResizeFailCleanly ==
    Running =>
        \A v \in Vecs, fail \in BOOLEAN :
            /\ \A n \in Sizes : \A junk \in ReserveJunk(vec, v, n, fail) :
                   FailedCleanly(Reserve(vec, heap, v, n, fail, junk), v)
            /\ \A n \in Sizes : \A junk \in ResizeJunk(vec, v, n, fail) :
                   ResizePre(vec, heap, v, n)
                       => FailedCleanly(Resize(vec, heap, v, n, fail, junk), v)

\* The live elements of container v in outcome o.
ElemsOf(o, v) == Elems(o.vec, o.heap, v)

\* C6: doubling growth policy: PushBack and Insert on a container with
\* size + 1 > capacity set capacity to exactly max(capacity * 2, size + 1)
\* (capacity 0 becomes 1), Resize(n) with n > capacity sets it to exactly
\* max(capacity * 2, n); when the needed size fits in the capacity these
\* operations leave the capacity unchanged.
Doubled(capacity, needed) ==
    IF needed <= capacity THEN capacity
    ELSE IF capacity * 2 >= needed THEN capacity * 2 ELSE needed

C6_DoublingGrowth ==
    Running =>
        \A v \in Vecs :
            /\ \A x \in Vals : \A junk \in PushBackJunk(vec, v, FALSE) :
                   /\ PushBackPre(vec, heap, v) =>
                          LET o == PushBack(vec, heap, v, x, FALSE, junk)
                          IN  o.err = "none" =>
                                  /\ o.vec[v].capacity_ = Doubled(vec[v].capacity_, vec[v].size_ + 1)
                                  /\ vec[v].capacity_ = 0 => o.vec[v].capacity_ = 1
                   /\ \A new_pos \in 0..vec[v].size_ :
                          InsertPre(vec, heap, v, new_pos) =>
                              LET o == Insert(vec, heap, v, new_pos, x, FALSE, junk)
                              IN  o.err = "none" =>
                                      /\ o.vec[v].capacity_ = Doubled(vec[v].capacity_, vec[v].size_ + 1)
                                      /\ vec[v].capacity_ = 0 => o.vec[v].capacity_ = 1
            /\ \A n \in Sizes : \A junk \in ResizeJunk(vec, v, n, FALSE) :
                   ResizePre(vec, heap, v, n) =>
                       LET o == Resize(vec, heap, v, n, FALSE, junk)
                       IN  o.err = "none" => o.vec[v].capacity_ = Doubled(vec[v].capacity_, n)

\* A full container of capacity 2 that PushBack and Insert take to
\* capacity 4, where size + 1 is only 3.
C6_Witness ==
    /\ Running
    /\ \E v \in Vecs : \E junk \in PushBackJunk(vec, v, FALSE) :
           /\ vec[v].size_ = 2 /\ vec[v].capacity_ = 2
           /\ PushBack(vec, heap, v, 1, FALSE, junk).vec[v] = [items_ |-> NewPtr(heap), size_ |-> 3, capacity_ |-> 4]
           /\ Insert(vec, heap, v, 1, 1, FALSE, junk).vec[v].capacity_ = 4

\* s[0..p) ++ [value] ++ s[p..size)
WithInserted(s, p, value) ==
    [i \in 1..(Len(s) + 1) |-> IF i <= p THEN s[i] ELSE IF i = p + 1 THEN value ELSE s[i - 1]]

\* C7: for every container with elements s and every position index p with
\* 0 <= p <= size, Insert(position p, value), in place and reallocating,
\* yields s[0..p) ++ [value] ++ s[p..size), increases size by exactly 1 and
\* returns the position handle of index p in the current buffer.
C7_InsertPlacesValue ==
    Running =>
        \A v \in Vecs, x \in Vals : \A new_pos \in 0..vec[v].size_ :
            \A junk \in PushBackJunk(vec, v, FALSE) :
                InsertPre(vec, heap, v, new_pos) =>
                    LET o == Insert(vec, heap, v, new_pos, x, FALSE, junk)
                    IN  o.err = "none" =>
                            /\ ElemsOf(o, v) = WithInserted(Elems(vec, heap, v), new_pos, x)
                            /\ o.vec[v].size_ = vec[v].size_ + 1
                            /\ o.ret = [p |-> o.vec[v].items_, i |-> new_pos]

\* <<0, 1, 1>> with spare capacity takes a 0 at index 1 in place, and the
\* elements after it move up.
C7_Witness ==
    /\ Running
    /\ \E v \in Vecs :
           /\ vec[v].capacity_ = 4
           /\ Elems(vec, heap, v) = <<0, 1, 1>>
           /\ LET o == Insert(vec, heap, v, 1, 0, FALSE, NoJunk)
              IN  /\ ElemsOf(o, v) = <<0, 0, 1, 1>>
                  /\ o.vec[v].items_ = vec[v].items_

\* s[0..p) ++ s[p+1..size)
WithErased(s, p) == [i \in 1..(Len(s) - 1) |-> IF i <= p THEN s[i] ELSE s[i + 1]]

\* C8: for every container with elements s and every position index p with
\* 0 <= p < size, Erase(position p) yields s[0..p) ++ s[p+1..size),
\* decrements size by exactly 1, leaves capacity unchanged and returns the
\* position handle of index p (end when the last element was erased).
C8_EraseRemovesElement ==
    Running =>
        \A v \in Vecs : \A at \in 0..(vec[v].size_ - 1) :
            LET o == Erase(vec, heap, v, at)
            IN  /\ o.err = "none"
                /\ ElemsOf(o, v) = WithErased(Elems(vec, heap, v), at)
                /\ o.vec[v].size_ = vec[v].size_ - 1
                /\ o.vec[v].capacity_ = vec[v].capacity_
                /\ o.ret = [p |-> o.vec[v].items_, i |-> at]
                /\ at = vec[v].size_ - 1 => o.ret = Pos(o.vec, v, o.vec[v].size_)

\* <<0, 1, 0, 1>> loses its element at index 1.
C8_Witness ==
    /\ Running
    /\ \E v \in Vecs :
           /\ Elems(vec, heap, v) = <<0, 1, 0, 1>>
           /\ ElemsOf(Erase(vec, heap, v, 1), v) = <<0, 0, 1>>

\* C9: for every container v, every valid index i < size and every value
\* x, v.Erase(v.Insert(pos_i, x)) returns the container to its original
\* elements and size, whether or not the Insert reallocated.
C9_InsertEraseRoundTrip ==
    Running =>
        \A v \in Vecs, x \in Vals : \A i \in 0..(vec[v].size_ - 1) :
            \A junk \in PushBackJunk(vec, v, FALSE) :
                InsertPre(vec, heap, v, i) =>
                    LET ins == Insert(vec, heap, v, i, x, FALSE, junk)
                    IN  ins.err = "none" =>
                            /\ ins.ret.p = ins.vec[v].items_
                            /\ ins.ret.i < ins.vec[v].size_
                            /\ LET o == Erase(ins.vec, ins.heap, v, ins.ret.i)
                               IN  /\ ElemsOf(o, v) = Elems(vec, heap, v)
                                   /\ o.vec[v].size_ = vec[v].size_

\* A full container <<0, 1>>: the Insert at index 0 reallocates, the Erase
\* of the handle it returns gives <<0, 1>> back in the new buffer.
C9_Witness ==
    /\ Running
    /\ \E v \in Vecs : \E junk \in PushBackJunk(vec, v, FALSE) :
           /\ vec[v].capacity_ = 2
           /\ Elems(vec, heap, v) = <<0, 1>>
           /\ LET ins == Insert(vec, heap, v, 0, 1, FALSE, junk)
                  o == Erase(ins.vec, ins.heap, v, ins.ret.i)
              IN  /\ ElemsOf(ins, v) = <<1, 0, 1>>
                  /\ ins.vec[v].items_ # vec[v].items_
                  /\ ElemsOf(o, v) = <<0, 1>>

\* C10: for every container v (empty and full ones included) and every
\* value x, PushBack(x) followed by PopBack() restores the original size
\* and the original live elements; only capacity may differ.
C10_PushPopRoundTrip ==
    Running =>
        \A v \in Vecs, x \in Vals : \A junk \in PushBackJunk(vec, v, FALSE) :
            PushBackPre(vec, heap, v) =>
                LET pushed == PushBack(vec, heap, v, x, FALSE, junk)
                IN  pushed.err = "none" =>
                        /\ pushed.vec[v].size_ = vec[v].size_ + 1
                        /\ LET o == PopBack(pushed.vec, pushed.heap, v)
                           IN  /\ o.vec[v].size_ = vec[v].size_
                               /\ ElemsOf(o, v) = Elems(vec, heap, v)

\* A full container <<1, 0>>: PushBack reallocates to capacity 4, PopBack
\* leaves <<1, 0>> there.
C10_Witness ==
    /\ Running
    /\ \E v \in Vecs : \E junk \in PushBackJunk(vec, v, FALSE) :
           /\ vec[v].capacity_ = 2
           /\ Elems(vec, heap, v) = <<1, 0>>
           /\ LET pushed == PushBack(vec, heap, v, 1, FALSE, junk)
                  o == PopBack(pushed.vec, pushed.heap, v)
              IN  /\ ElemsOf(pushed, v) = <<1, 0, 1>>
                  /\ o.vec[v].capacity_ = 4
                  /\ ElemsOf(o, v) = <<1, 0>>

\* The slots a growing Resize(n) allocates, whatever they hold.
ResizeAnyJunk(vs, v, n) == Fresh(n > vs[v].capacity_, Max(vs[v].capacity_ * 2, n), 0)

\* C11: for every container with elements s and every n, Resize(n) results
\* in size = n, elements [0, min(old size, n)) equal to those of s and every
\* element in [old size, n) equal to the default value, also when those
\* slots hold stale or indeterminate values; when n <= capacity the buffer
\* and the capacity are unchanged; and Resize(n) followed by Resize(m) with
\* m <= n <= old size keeps the first m elements of s.
C11_ResizeSemantics ==
    Running =>
        \A v \in Vecs, n \in Sizes : \A junk \in ResizeAnyJunk(vec, v, n) :
            ResizePre(vec, heap, v, n) =>
                LET o == Resize(vec, heap, v, n, FALSE, junk)
                    s == Elems(vec, heap, v)
                IN  o.err = "none" =>
                        /\ o.vec[v].size_ = n
                        /\ \A i \in 1..Min(Len(s), n) : ElemsOf(o, v)[i] = s[i]
                        /\ \A i \in (Len(s) + 1)..n : ElemsOf(o, v)[i] = DefaultValue
                        /\ n <= vec[v].capacity_ =>
                               /\ o.vec[v].items_ = vec[v].items_
                               /\ o.vec[v].capacity_ = vec[v].capacity_
                               /\ Len(Buffer(o.vec, o.heap, v)) = Len(Buffer(vec, heap, v))
                        /\ n <= Len(s) =>
                               \A m \in 0..n :
                                   LET o2 == Resize(o.vec, o.heap, v, m, FALSE, NoJunk)
                                   IN  /\ o2.vec[v].size_ = m
                                       /\ ElemsOf(o2, v) = [i \in 1..m |-> s[i]]

\* One live element, two stale 1s behind it from a shrinking step, and a
\* Resize(3) that turns them into default values in the same buffer.
C11_Witness ==
    /\ Running
    /\ \E v \in Vecs :
           /\ vec[v].size_ = 1 /\ vec[v].capacity_ = 3
           /\ Buffer(vec, heap, v) = <<1, 1, 1>>
           /\ LET o == Resize(vec, heap, v, 3, FALSE, NoJunk)
              IN  /\ ElemsOf(o, v) = <<1, DefaultValue, DefaultValue>>
                  /\ o.vec[v].items_ = vec[v].items_

\* The slots a growing Reserve(n) allocates, whatever they hold.
ReserveAnyJunk(vs, v, n) == Fresh(vs[v].capacity_ < n, n, 0)

\* C12: Reserve(n) never changes size or the live elements: if n > capacity
\* it sets capacity to exactly n, with a new buffer of n slots holding the
\* same first size elements, and if n <= capacity it leaves size, capacity,
\* buffer and elements as they are; hence a default-constructed container
\* after Reserve(n), n >= 1, has size 0 and capacity n, and a PushBack that
\* follows a Reserve(n) with n > size adds one element without changing the
\* capacity or the buffer.
C12_ReserveKeepsContents ==
    Running =>
        \A v \in Vecs, n \in Sizes : \A junk \in ReserveAnyJunk(vec, v, n) :
            LET o == Reserve(vec, heap, v, n, FALSE, junk)
            IN  o.err = "none" =>
                    /\ o.vec[v].size_ = vec[v].size_
                    /\ ElemsOf(o, v) = Elems(vec, heap, v)
                    /\ n > vec[v].capacity_ =>
                           /\ o.vec[v].capacity_ = n
                           /\ Len(Buffer(o.vec, o.heap, v)) = n
                           /\ o.vec[v].items_ # vec[v].items_
                    /\ n <= vec[v].capacity_ => o.vec = vec /\ o.heap = heap
                    /\ (vec[v] = EmptyVec /\ n >= 1) =>
                           o.vec[v].size_ = 0 /\ o.vec[v].capacity_ = n
                    /\ (n > vec[v].size_ /\ n >= vec[v].capacity_) =>
                           \A x \in Vals :
                               LET p == PushBack(o.vec, o.heap, v, x, FALSE, NoJunk)
                               IN  /\ p.err = "none"
                                   /\ p.vec[v].size_ = vec[v].size_ + 1
                                   /\ p.vec[v].capacity_ = n
                                   /\ p.vec[v].items_ = o.vec[v].items_
                                   /\ ElemsOf(p, v) = Append(Elems(vec, heap, v), x)

\* A default-constructed container, whose Reserve(3) and PushBack give size
\* 1 and capacity 3, next to a full <<1, 0>> that Reserve(3) moves to a new
\* buffer of three slots.
C12_Witness ==
    /\ Running
    /\ \E v \in Vecs : \E w \in Vecs \ {v} : \E junk \in Junk(3, 0) :
           /\ vec[v] = EmptyVec
           /\ LET o == Reserve(vec, heap, v, 3, FALSE, junk)
                  p == PushBack(o.vec, o.heap, v, 1, FALSE, NoJunk)
              IN  /\ o.vec[v].size_ = 0 /\ o.vec[v].capacity_ = 3
                  /\ p.vec[v].size_ = 1 /\ p.vec[v].capacity_ = 3
           /\ vec[w].capacity_ = 2 /\ Elems(vec, heap, w) = <<1, 0>>
           /\ LET o == Reserve(vec, heap, w, 3, FALSE, junk)
              IN  /\ o.vec[w].capacity_ = 3 /\ o.vec[w].items_ # vec[w].items_
                  /\ ElemsOf(o, w) = <<1, 0>>

\* C13: At(index) raises OutOfRange exactly when index >= size (also for
\* an index in [size, capacity), whose slot exists but is not live, and for
\* index = size on a container of size 3) and otherwise returns the element
\* at that index; in both outcomes size, capacity, buffer and elements are
\* unchanged.
C13_AtChecksBounds ==
    Running =>
        \A v \in Vecs, index \in Indices :
            LET o == At(vec, heap, v, index)
            IN  /\ o.err = "OutOfRange" <=> index >= vec[v].size_
                /\ o.err \in {"none", "OutOfRange"}
                /\ o.err = "none" =>
                       /\ o.ret = [p |-> vec[v].items_, i |-> index]
                       /\ Deref(o.heap, o.ret) = Elems(vec, heap, v)[index + 1]
                /\ o.vec = vec /\ o.heap = heap

\* A container of size 3 whose At(3) raises and whose At(2) returns the
\* last element, next to one with a slot in [size, capacity) whose index
\* At refuses.
C13_Witness ==
    /\ Running
    /\ \E v \in Vecs : \E w \in Vecs \ {v} :
           /\ Elems(vec, heap, v) = <<0, 0, 1>>
           /\ At(vec, heap, v, 3).err = "OutOfRange"
           /\ Deref(heap, At(vec, heap, v, 2).ret) = 1
           /\ vec[w].size_ = 1 /\ vec[w].capacity_ = 2
           /\ At(vec, heap, w, 1).err = "OutOfRange"

\* Outcome o leaves container w, its buffer included, as it is in the
\* current state.
Untouched(o, w) ==
    /\ o.vec[w] = vec[w]
    /\ Buffer(o.vec, o.heap, w) = Buffer(vec, heap, w)

\* Index assignment, PushBack, Insert, Erase, PopBack, Resize, Reserve and
\* Clear on container v, returning or raising, leave container w alone.
MutationsLeaveAlone(v, w) ==
    /\ \A index \in 0..(vec[v].size_ - 1), x \in Vals :
           Untouched(IndexAssign(vec, heap, v, index, x), w)
    /\ \A x \in Vals, fail \in BOOLEAN : \A junk \in PushBackJunk(vec, v, fail) :
           /\ PushBackPre(vec, heap, v)
                  => Untouched(PushBack(vec, heap, v, x, fail, junk), w)
           /\ \A new_pos \in 0..vec[v].size_ :
                  InsertPre(vec, heap, v, new_pos)
                      => Untouched(Insert(vec, heap, v, new_pos, x, fail, junk), w)
    /\ \A at \in 0..(vec[v].size_ - 1) : Untouched(Erase(vec, heap, v, at), w)
    /\ ~IsEmpty(vec, v) => Untouched(PopBack(vec, heap, v), w)
    /\ \A n \in Sizes, fail \in BOOLEAN :
           /\ \A junk \in ResizeJunk(vec, v, n, fail) :
                  ResizePre(vec, heap, v, n)
                      => Untouched(Resize(vec, heap, v, n, fail, junk), w)
           /\ \A junk \in ReserveJunk(vec, v, n, fail) :
                  Untouched(Reserve(vec, heap, v, n, fail, junk), w)
    /\ Untouched(Clear(vec, heap, v), w)

\* In outcome o container v is a copy of container other: equal by value,
\* of the same size, in a buffer of its own, other being left alone.
IsCopy(o, v, other) ==
    /\ Equal(o.vec, o.heap, v, other) /\ Equal(o.vec, o.heap, other, v)
    /\ ElemsOf(o, v) = Elems(vec, heap, other)
    /\ o.vec[v].size_ = vec[other].size_
    /\ o.vec[v].items_ # 0 => o.vec[v].items_ # o.vec[other].items_
    /\ Len(Buffer(o.vec, o.heap, v)) = vec[other].size_
    /\ Untouched(o, other)

\* The slots a copy of container rhs allocates, whatever they hold.
CopyAnyJunk(vs, rhs) == Junk(vs[rhs].size_, 0)

\* C14: copy construction and copy-assignment produce a container equal by
\* value (==) to the original, of the original's size, in a buffer of its
\* own; and they are independent: no allocation is ever owned by two
\* containers, and in every state that follows no mutation of one container
\* changes the size, capacity, buffer or elements of the other.
C14_CopiesAreIndependent ==
    /\ \A v \in Vecs : \A w \in Vecs \ {v} :
           vec[v].items_ = 0 \/ vec[v].items_ # vec[w].items_
    /\ Running =>
           \A v \in Vecs : \A other \in Vecs \ {v} :
               /\ \A junk \in CopyAnyJunk(vec, other) :
                      /\ LET o == CopyAssign(vec, heap, v, other, FALSE, junk)
                         IN  o.err = "none" => IsCopy(o, v, other)
                      /\ LET d == Destroy(vec, heap, v)
                             b == SimpleVectorCopy(d.vec, d.heap, other, junk)
                         IN  CanAlloc(d.heap, vec[other].size_, FALSE) =>
                                 IsCopy(Out([b.vec EXCEPT ![v] = b.obj], b.heap,
                                            "none", NoHandle), v, other)
               /\ MutationsLeaveAlone(v, other)

\* <<1, 0>> is copy-assigned into a container that owns a buffer; the copy
\* then gets a 0 at index 0 and a 1 appended, and the original is <<1, 0>>
\* as before.
C14_Witness ==
    /\ Running
    /\ \E v \in Vecs : \E other \in Vecs \ {v} : \E junk \in CopyAnyJunk(vec, other) :
           /\ Elems(vec, heap, other) = <<1, 0>>
           /\ vec[v].items_ # 0
           /\ LET o == CopyAssign(vec, heap, v, other, FALSE, junk)
                  p == IndexAssign(o.vec, o.heap, v, 0, 0)
              IN  /\ o.err = "none"
                  /\ Equal(o.vec, o.heap, v, other)
                  /\ ElemsOf(p, v) = <<0, 0>>
                  /\ ElemsOf(p, other) = <<1, 0>>
                  /\ ~Equal(p.vec, p.heap, v, other)

\* Sequence s is lexicographically less than sequence t: they agree on a
\* prefix after which s ends and t goes on, or s has the smaller element.
LexLess(s, t) ==
    \E k \in 0..Min(Len(s), Len(t)) :
        /\ \A i \in 1..k : s[i] = t[i]
        /\ \/ k = Len(s) /\ k < Len(t)
           \/ k < Len(s) /\ k < Len(t) /\ s[k + 1] < t[k + 1]

\* ==, <, <= and > of containers a and b are what the live sequences say.
ComparesByElems(vs, h, a, b) ==
    LET s == Elems(vs, h, a)
        t == Elems(vs, h, b)
    IN  /\ Equal(vs, h, a, b) <=> s = t
        /\ Less(vs, h, a, b) <=> LexLess(s, t)
        /\ LessEq(vs, h, a, b) <=> (Less(vs, h, a, b) \/ Equal(vs, h, a, b))
        /\ Greater(vs, h, a, b) <=> Less(vs, h, b, a)

\* C15: for all containers a and b the comparison operators depend only on
\* the live sequences [0, size): a == b iff the sizes are equal and the
\* elements pairwise equal, a < b iff a's sequence is lexicographically
\* less than b's, and a <= b, a > b, a >= b are (a < b or a == b), (b < a),
\* (a > b or a == b).
C15_ComparisonsOnLiveSequences ==
    Running =>
        \A a \in Vecs, b \in Vecs :
            /\ ComparesByElems(vec, heap, a, b)
            /\ GreaterEq(vec, heap, a, b)
                   <=> (Greater(vec, heap, a, b) \/ Equal(vec, heap, a, b))

\* {1,2}, {1,2,3} and {1,3}, built by the initializer-list constructor.
Literals ==
    LET names == {"x", "y", "z"}
        none == [n \in names |-> EmptyVec]
        x == SimpleVectorList(none, [p \in Ptrs |-> << >>], <<1, 2>>, <<0, 0>>)
        y == SimpleVectorList(none, x.heap, <<1, 2, 3>>, <<0, 0, 0>>)
        z == SimpleVectorList(none, y.heap, <<1, 3>>, <<0, 0>>)
    IN  [vec |-> [n \in names |-> IF n = "x" THEN x.obj ELSE IF n = "y" THEN y.obj ELSE z.obj],
         heap |-> z.heap]

\* The part of C15 the operators keep: ==, <, <= and > follow the live
\* sequences, {1,2} < {1,2,3} < {1,3}; and what >= computes is <=.
ComparisonsButGreaterEq ==
    /\ Running =>
           \A a \in Vecs, b \in Vecs :
               /\ ComparesByElems(vec, heap, a, b)
               /\ GreaterEq(vec, heap, a, b) <=> LessEq(vec, heap, a, b)
    /\ Less(Literals.vec, Literals.heap, "x", "y")
    /\ Less(Literals.vec, Literals.heap, "y", "z")
    /\ Less(Literals.vec, Literals.heap, "x", "z")
    /\ ~GreaterEq(Literals.vec, Literals.heap, "z", "x")

\* C16: for every n the allocator can serve, n = 0 included, the container
\* constructed with size n has size = capacity = n, owns a buffer of n
\* slots (none when n = 0), and every one of its n elements is the default
\* value, whatever the fresh slots held.
C16_SizedConstruction ==
    Running =>
        \A v \in Vecs, n \in Sizes : \A junk \in Junk(n, 0) :
            LET d == Destroy(vec, heap, v)
                b == SimpleVectorSize(d.vec, d.heap, n, junk)
            IN  CanAlloc(d.heap, n, FALSE) =>
                    /\ b.obj.size_ = n /\ b.obj.capacity_ = n
                    /\ Len(Slots(b.heap, b.obj.items_)) = n
                    /\ \A i \in 1..n : Slots(b.heap, b.obj.items_)[i] = DefaultValue
                    /\ n = 0 => b.obj = EmptyVec
                    /\ b.vec = d.vec

\* Next to a container that owns a buffer, SimpleVector(3) on slots that
\* held 1s gives three default values, and SimpleVector(0) an empty
\* container without a buffer.
C16_Witness ==
    /\ Running
    /\ \E v \in Vecs : \E w \in Vecs \ {v} :
           /\ vec[w].size_ = 2
           /\ LET d == Destroy(vec, heap, v)
                  b == SimpleVectorSize(d.vec, d.heap, 3, <<1, 1, 1>>)
              IN  /\ CanAlloc(d.heap, 3, FALSE)
                  /\ b.obj.size_ = 3 /\ b.obj.capacity_ = 3
                  /\ b.heap[b.obj.items_] = <<DefaultValue, DefaultValue, DefaultValue>>
                  /\ SimpleVectorSize(d.vec, d.heap, 0, NoJunk).obj = EmptyVec

\* The slots a growing PushBack or Insert allocates, whatever they hold.
PushBackAnyJunk(vs, v, fail) ==
    Fresh(vs[v].capacity_ < vs[v].size_ + 1 /\ ~fail, Grown(vs, v), 0)

\* C17: insertion at end is PushBack: for every container state and value
\* x, Insert(end, x) and PushBack(x) applied to the same state end the same
\* way (both return or both raise) with the same size, capacity and
\* elements, in the same buffer, with spare capacity and when they grow;
\* and the handle Insert returns is that of the element appended.
C17_InsertAtEndIsPushBack ==
    Running =>
        \A v \in Vecs, x \in Vals, fail \in BOOLEAN :
            \A junk \in PushBackAnyJunk(vec, v, fail) :
                PushBackPre(vec, heap, v) =>
                    LET i == Insert(vec, heap, v, vec[v].size_, x, fail, junk)
                        p == PushBack(vec, heap, v, x, fail, junk)
                    IN  /\ Observed(i) = Observed(p)
                        /\ i.vec[v].items_ = p.vec[v].items_
                        /\ i.err = "none" =>
                               /\ ElemsOf(i, v) = Append(Elems(vec, heap, v), x)
                               /\ i.ret = [p |-> p.vec[v].items_, i |-> vec[v].size_]

\* A full container <<1>>, which both operations move to a buffer of two
\* slots, next to a container <<0>> with a spare slot, which both fill in
\* place.
C17_Witness ==
    /\ Running
    /\ \E v \in Vecs : \E w \in Vecs \ {v} : \E junk \in PushBackAnyJunk(vec, v, FALSE) :
           /\ vec[v].capacity_ = 1 /\ Elems(vec, heap, v) = <<1>>
           /\ LET i == Insert(vec, heap, v, 1, 0, FALSE, junk)
                  p == PushBack(vec, heap, v, 0, FALSE, junk)
              IN  /\ ElemsOf(i, v) = <<1, 0>> /\ ElemsOf(p, v) = <<1, 0>>
                  /\ i.vec[v].capacity_ = 2 /\ p.vec[v].capacity_ = 2
                  /\ i.vec[v].items_ # vec[v].items_
           /\ vec[w].capacity_ = 2 /\ Elems(vec, heap, w) = <<0>>
           /\ LET i == Insert(vec, heap, w, 1, 1, FALSE, NoJunk)
                  p == PushBack(vec, heap, w, 1, FALSE, NoJunk)
              IN  /\ ElemsOf(i, w) = <<0, 1>> /\ ElemsOf(p, w) = <<0, 1>>
                  /\ i.vec[w].items_ = vec[w].items_

\* The position handles of container v taken in the current state for the
\* indices before index point designate, in outcome o, live elements of v
\* in the buffer v owns, with the values they had.
HandlesBeforeStayValid(o, v, point) ==
    /\ o.vec[v].items_ = vec[v].items_
    /\ o.vec[v].capacity_ = vec[v].capacity_
    /\ \A i \in 0..(point - 1) :
           LET handle == Pos(vec, v, i)
           IN  /\ handle = Pos(o.vec, v, i)
               /\ i < o.vec[v].size_
               /\ Deref(o.heap, handle) = Deref(heap, handle)

\* C18: a structural change that does not reallocate (Insert or PushBack
\* when size + 1 <= capacity, and any Erase) keeps the owned buffer and
\* leaves every element at an index before the modification point in its
\* slot with its value, so the position handles taken before the operation
\* for those indices designate the same elements afterwards.
C18_HandlesBeforeChangeStayValid ==
    Running =>
        \A v \in Vecs :
            /\ \A at \in 0..(vec[v].size_ - 1) :
                   HandlesBeforeStayValid(Erase(vec, heap, v, at), v, at)
            /\ (vec[v].size_ + 1 <= vec[v].capacity_ /\ PushBackPre(vec, heap, v)) =>
                   \A x \in Vals :
                       /\ HandlesBeforeStayValid(PushBack(vec, heap, v, x, FALSE, NoJunk),
                                                 v, vec[v].size_)
                       /\ \A new_pos \in 0..vec[v].size_ :
                              HandlesBeforeStayValid(
                                  Insert(vec, heap, v, new_pos, x, FALSE, NoJunk), v, new_pos)

\* <<0, 1, 0>> in a buffer of four slots: erasing at index 2, inserting at
\* index 2 and appending all leave 0 and 1 in slots 0 and 1 of that buffer.
C18_Witness ==
    /\ Running
    /\ \E v \in Vecs :
           /\ vec[v].capacity_ = 4
           /\ Elems(vec, heap, v) = <<0, 1, 0>>
           /\ ElemsOf(Erase(vec, heap, v, 2), v) = <<0, 1>>
           /\ ElemsOf(Insert(vec, heap, v, 2, 1, FALSE, NoJunk), v) = <<0, 1, 1, 0>>
           /\ ElemsOf(PushBack(vec, heap, v, 1, FALSE, NoJunk), v) = <<0, 1, 0, 1>>
           /\ Insert(vec, heap, v, 2, 1, FALSE, NoJunk).vec[v].items_ = vec[v].items_
           /\ Deref(Erase(vec, heap, v, 2).heap, Pos(vec, v, 1)) = 1

\* The smallest power of two >= k, k >= 1.
RECURSIVE PowerOfTwoFrom(_, _)
PowerOfTwoFrom(p, k) == IF p >= k THEN p ELSE PowerOfTwoFrom(2 * p, k)

SmallestPowerOfTwo(k) == PowerOfTwoFrom(1, k)

\* C19: starting from default-constructed (or moved-from) containers and
\* applying only PushBack, with every call returning, a container of size
\* 0 has capacity 0, a container of size k >= 1 has as capacity the
\* smallest power of two >= k, and each PushBack(x) adds 1 to the size and
\* appends x to the elements, so that after k calls the size is k and the
\* elements are the pushed values in push order.
C19_PushBackOnlyCapacity ==
    Running =>
        \A v \in Vecs :
            /\ vec[v].size_ = 0 => vec[v].capacity_ = 0
            /\ vec[v].size_ >= 1 => vec[v].capacity_ = SmallestPowerOfTwo(vec[v].size_)
            /\ \A x \in Vals : \A junk \in PushBackAnyJunk(vec, v, FALSE) :
                   PushBackPre(vec, heap, v) =>
                       LET o == PushBack(vec, heap, v, x, FALSE, junk)
                       IN  o.err = "none" =>
                               /\ o.vec[v].size_ = vec[v].size_ + 1
                               /\ o.vec[v].capacity_ = SmallestPowerOfTwo(vec[v].size_ + 1)
                               /\ ElemsOf(o, v) = Append(Elems(vec, heap, v), x)

\* After 1, 0 the container has two slots; the third PushBack takes it to
\* four, where the fourth finds room.
C19_Witness ==
    /\ Running
    /\ \E v \in Vecs : \E junk \in PushBackAnyJunk(vec, v, FALSE) :
           /\ vec[v].capacity_ = 2
           /\ Elems(vec, heap, v) = <<1, 0>>
           /\ LET third == PushBack(vec, heap, v, 1, FALSE, junk)
                  fourth == PushBack(third.vec, third.heap, v, 0, FALSE, NoJunk)
              IN  /\ third.vec[v].capacity_ = 4
                  /\ ElemsOf(third, v) = <<1, 0, 1>>
                  /\ fourth.vec[v].capacity_ = 4
                  /\ ElemsOf(fourth, v) = <<1, 0, 1, 0>>

====
